---- MODULE Spec2Model ----
(***************************************************************************)
(* A model of the dishook webhook builders (src/utils): the embed, poll,   *)
(* components and allowed-mentions builders, the colour conversions and    *)
(* DiscordWebhook.execute.                                                 *)
(*                                                                         *)
(* Python values are tagged records, so that values of different Python    *)
(* types can be compared: None, int, bool, str (a sequence of one-letter   *)
(* strings), list, dict (a function from keys to values) and datetime (the *)
(* epoch second).                                                          *)
(***************************************************************************)
EXTENDS Integers, Sequences, FiniteSets, TLC

VARIABLES
    embed,      \* the DiscordEmbed instance under construction (its attributes)
    poll,       \* the DiscordPoll instance (its attributes)
    ncalls,     \* how many builder methods were called on embed and poll
    tsByUser,   \* whether the caller gave a timestamp or called set_timestamp
    last,       \* the last method called: its name, argument, and how it ended
    cin,        \* the colour handed to the two colour conversions
    conv,       \* the outcome of DiscordUtilities.convert_color_to_int(cin)
    mentions,   \* the DiscordAllowedMentions instance (its attributes)
    embeds,     \* the caller's list of embeds, handed to execute
    call,       \* the last call of DiscordWebhook.execute: arguments and outcome
    heap,       \* the list objects of the interpreter, by address
    objs        \* the builder instances of the caller, holding references to lists

vars == <<embed, poll, ncalls, tsByUser, last, cin, conv, mentions, embeds, call, heap, objs>>

-----------------------------------------------------------------------------
(* Python values *)

None == [t |-> "None"]

PyInt(n) == [t |-> "int", v |-> n]

PyBool(b) == [t |-> "bool", v |-> b]

PyStr(s) == [t |-> "str", v |-> s]

PyList(s) == [t |-> "list", v |-> s]

PyDict(d) == [t |-> "dict", v |-> d]

PyDatetime(n) == [t |-> "datetime", v |-> n]

\* Python's truth value of an object: None, 0, False, "", [] and {} are false.
Truthy(x) ==
    CASE x.t = "None" -> FALSE
      [] x.t = "int" -> x.v # 0
      [] x.t = "bool" -> x.v
      [] x.t = "str" -> x.v # <<>>
      [] x.t = "list" -> x.v # <<>>
      [] x.t = "dict" -> DOMAIN x.v # {}
      [] OTHER -> TRUE

\* list[i:] and list[:n] on a sequence (0-based slice bounds, n >= 0).
SliceFrom(s, i) == IF i >= Len(s) THEN <<>> ELSE SubSeq(s, i + 1, Len(s))

SliceTo(s, n) == IF n >= Len(s) THEN s ELSE SubSeq(s, 1, n)

\* list.pop(i) for 0 <= i < len: the list without its i-th element (0-based).
PopAt(s, i) == SubSeq(s, 1, i) \o SubSeq(s, i + 2, Len(s))

-----------------------------------------------------------------------------
(* int(s, 16): Python's parse of a string in base 16 *)

HexLower == <<"0", "1", "2", "3", "4", "5", "6", "7", "8", "9", "a", "b", "c", "d", "e", "f">>

HexUpper == <<"0", "1", "2", "3", "4", "5", "6", "7", "8", "9", "A", "B", "C", "D", "E", "F">>

IsHexDigit(ch) == \E i \in 1..16 : HexLower[i] = ch \/ HexUpper[i] = ch

DigitVal(ch) == (CHOOSE i \in 1..16 : HexLower[i] = ch \/ HexUpper[i] = ch) - 1

RECURSIVE StripLeft(_)
StripLeft(s) == IF s # <<>> /\ Head(s) = " " THEN StripLeft(Tail(s)) ELSE s

RECURSIVE StripRight(_)
StripRight(s) ==
    IF s # <<>> /\ s[Len(s)] = " " THEN StripRight(SubSeq(s, 1, Len(s) - 1)) ELSE s

\* The digits of a literal: non-empty, hex digits separated by single underscores.
DigitsOk(b) ==
    /\ b # <<>>
    /\ IsHexDigit(b[1])
    /\ IsHexDigit(b[Len(b)])
    /\ \A i \in 1..Len(b) : IsHexDigit(b[i]) \/ b[i] = "_"
    /\ \A i \in 1..(Len(b) - 1) : ~(b[i] = "_" /\ b[i + 1] = "_")

RECURSIVE DigitsValue(_, _)
DigitsValue(b, acc) ==
    IF b = <<>> THEN acc
    ELSE IF Head(b) = "_" THEN DigitsValue(Tail(b), acc)
    ELSE DigitsValue(Tail(b), 16 * acc + DigitVal(Head(b)))

\* int(s, 16): surrounding blanks, a sign, a 0x or 0X prefix (one underscore may
\* follow it), then the digits. [ok |-> FALSE] is Python's ValueError.
ParseHex(s) ==
    LET a == StripRight(StripLeft(s))
        signed == a # <<>> /\ a[1] \in {"+", "-"}
        neg == signed /\ a[1] = "-"
        b == IF signed THEN Tail(a) ELSE a
        prefixed == Len(b) >= 2 /\ b[1] = "0" /\ b[2] \in {"x", "X"}
        c == IF prefixed THEN SubSeq(b, 3, Len(b)) ELSE b
        d == IF prefixed /\ c # <<>> /\ c[1] = "_" THEN Tail(c) ELSE c
    IN  IF DigitsOk(d)
        THEN [ok |-> TRUE, v |-> IF neg THEN 0 - DigitsValue(d, 0) ELSE DigitsValue(d, 0)]
        ELSE [ok |-> FALSE, v |-> 0]

-----------------------------------------------------------------------------
(* DiscordEmbed: colour *)

ColorLimit == 16777216

UtilColorLimit == 16777216

\* set_color with the upper limit itself refused (color < 16777215).
SetColorOffByOne(e, color) ==
    IF color.t = "None" THEN [e |-> e, res |-> "ok"]
    ELSE LET p == IF color.t = "str" THEN ParseHex(color.v) ELSE [ok |-> TRUE, v |-> color.v]
         IN  IF ~p.ok THEN [e |-> e, res |-> "ValueError"]
             ELSE IF ~(0 <= p.v /\ p.v < ColorLimit - 1) THEN [e |-> e, res |-> "ValueError"]
             ELSE [e |-> [e EXCEPT !.color = PyInt(p.v)], res |-> "ok"]

\* set_color storing whatever it is given, None too.
SetColorClearsOnNone(e, color) ==
    IF color.t = "None" THEN [e |-> [e EXCEPT !.color = None], res |-> "ok"]
    ELSE LET p == IF color.t = "str" THEN ParseHex(color.v) ELSE [ok |-> TRUE, v |-> color.v]
         IN  IF ~p.ok THEN [e |-> e, res |-> "ValueError"]
             ELSE IF ~(0 <= p.v /\ p.v < ColorLimit) THEN [e |-> e, res |-> "ValueError"]
             ELSE [e |-> [e EXCEPT !.color = PyInt(p.v)], res |-> "ok"]

\* set_color storing the colour before it checks the range.
SetColorAssignFirst(e, color) ==
    IF color.t = "None" THEN [e |-> e, res |-> "ok"]
    ELSE LET p == IF color.t = "str" THEN ParseHex(color.v) ELSE [ok |-> TRUE, v |-> color.v]
         IN  IF ~p.ok THEN [e |-> e, res |-> "ValueError"]
             ELSE IF ~(0 <= p.v /\ p.v < ColorLimit)
                  THEN [e |-> [e EXCEPT !.color = PyInt(p.v)], res |-> "ValueError"]
             ELSE [e |-> [e EXCEPT !.color = PyInt(p.v)], res |-> "ok"]

\* DiscordEmbed.set_color(color) on embed e: the embed afterwards and how the call
\* ended. A colour that is None leaves the embed alone.
SetColor(e, color) ==
    IF color.t = "None" THEN [e |-> e, res |-> "ok"]
    ELSE LET p == IF color.t = "str" THEN ParseHex(color.v) ELSE [ok |-> TRUE, v |-> color.v]
         IN  IF ~p.ok THEN [e |-> e, res |-> "ValueError"]
             ELSE IF ~(0 <= p.v /\ p.v < ColorLimit) THEN [e |-> e, res |-> "ValueError"]
             ELSE [e |-> [e EXCEPT !.color = PyInt(p.v)], res |-> "ok"]

\* DiscordUtilities.convert_color_to_int(color): the value returned or the error
\* raised. None is no string, and 0 <= None is a TypeError.
ConvertColorToInt(color) ==
    IF color.t = "None" THEN [res |-> "TypeError", v |-> None]
    ELSE LET p == IF color.t = "str" THEN ParseHex(color.v) ELSE [ok |-> TRUE, v |-> color.v]
         IN  IF ~p.ok THEN [res |-> "ValueError", v |-> None]
             ELSE IF ~(0 <= p.v /\ p.v < UtilColorLimit) THEN [res |-> "ValueError", v |-> None]
             ELSE [res |-> "ok", v |-> PyInt(p.v)]

-----------------------------------------------------------------------------
(* DiscordEmbed: timestamps *)

\* Datetimes are whole seconds of the first hour of 1970-01-01 (UTC), the range
\* in which the model writes out datetime.isoformat() letter by letter.
IsoPrefix == <<"1", "9", "7", "0", "-", "0", "1", "-", "0", "1", "T", "0", "0", ":">>

Dec2(n) == <<HexLower[(n \div 10) + 1], HexLower[(n % 10) + 1]>>

\* datetime.isoformat(): "1970-01-01T00:MM:SS".
IsoFormat(n) == IsoPrefix \o Dec2(n \div 60) \o <<":">> \o Dec2(n % 60)

IsDecDigit(ch) == \E i \in 1..10 : HexLower[i] = ch

\* datetime.fromisoformat(s): the datetime, or [ok |-> FALSE] for ValueError.
FromIsoFormat(s) ==
    IF /\ Len(s) = 19
       /\ SubSeq(s, 1, 14) = IsoPrefix
       /\ s[17] = ":"
       /\ \A i \in {15, 16, 18, 19} : IsDecDigit(s[i])
       /\ DigitVal(s[15]) < 6
       /\ DigitVal(s[18]) < 6
    THEN [ok |-> TRUE,
          v |-> 60 * (10 * DigitVal(s[15]) + DigitVal(s[16]))
                + 10 * DigitVal(s[18]) + DigitVal(s[19])]
    ELSE [ok |-> FALSE, v |-> 0]

\* What datetime.utcnow() may return.
ClockValues == {7, 125}

\* DiscordEmbed.set_timestamp(timestamp) on embed e with the clock reading now.
SetTimestamp(e, timestamp, now) ==
    LET dt == CASE timestamp.t = "None" -> [ok |-> TRUE, v |-> now]
                [] timestamp.t = "int" -> [ok |-> TRUE, v |-> timestamp.v]
                [] timestamp.t = "str" -> FromIsoFormat(timestamp.v)
                [] OTHER -> [ok |-> TRUE, v |-> timestamp.v]
    IN  IF dt.ok
        THEN [e |-> [e EXCEPT !.timestamp = PyStr(IsoFormat(dt.v))], res |-> "ok"]
        ELSE [e |-> e, res |-> "ValueError"]

-----------------------------------------------------------------------------
(* DiscordEmbed: construction, setters, fields and serialization *)

\* No keyword arguments; also the empty dict.
NoKw == [k \in {} |-> None]

KwGet(kw, k, default) == IF k \in DOMAIN kw THEN kw[k] ELSE default

\* DiscordEmbed(title, description, **kw) with the clock reading now: the new
\* embed, and "ValueError" when set_color or set_timestamp raised (no embed).
NewEmbed(title, description, kw, now) ==
    LET e0 == [title |-> title,
               description |-> description,
               url |-> KwGet(kw, "url", None),
               footer |-> KwGet(kw, "footer", None),
               image |-> KwGet(kw, "image", None),
               thumbnail |-> KwGet(kw, "thumbnail", None),
               video |-> KwGet(kw, "video", None),
               provider |-> KwGet(kw, "provider", None),
               author |-> KwGet(kw, "author", None),
               fields |-> KwGet(kw, "fields", PyList(<<>>)),
               color |-> None,
               timestamp |-> None]
        c == SetColor(e0, KwGet(kw, "color", None))
        t == SetTimestamp(c.e, KwGet(kw, "timestamp", None), now)
    IN  IF c.res # "ok" THEN [e |-> e0, res |-> c.res] ELSE t

SetTitle(e, title) == [e EXCEPT !.title = title]

SetDescription(e, description) == [e EXCEPT !.description = description]

SetUrl(e, url) == [e EXCEPT !.url = url]

SetFooter(e, text, icon_url) ==
    [e EXCEPT !.footer = PyDict([text |-> text, icon_url |-> icon_url])]

SetImage(e, url, height, width) ==
    [e EXCEPT !.image = PyDict([url |-> url, height |-> height, width |-> width])]

SetThumbnail(e, url, height, width) ==
    [e EXCEPT !.thumbnail = PyDict([url |-> url, height |-> height, width |-> width])]

SetVideo(e, url, height, width) ==
    [e EXCEPT !.video = PyDict([url |-> url, height |-> height, width |-> width])]

SetProvider(e, name, url) ==
    [e EXCEPT !.provider = PyDict([name |-> name, url |-> url])]

SetAuthor(e, name, url, icon_url) ==
    [e EXCEPT !.author = PyDict([name |-> name, url |-> url, icon_url |-> icon_url])]

AddField(e, name, value, inline) ==
    [e EXCEPT !.fields =
        PyList(@.v \o <<PyDict([name |-> name, value |-> value, inline |-> inline])>>)]

\* remove_field without the lower bound: a negative index reaches list.pop, which
\* counts it from the end (and raises IndexError beyond the start).
RemoveFieldNoLowerBound(e, index) ==
    LET n == Len(e.fields.v)
    IN  IF index < n /\ index + n >= 0
        THEN [e |-> [e EXCEPT !.fields = PyList(PopAt(@.v, IF index < 0 THEN index + n ELSE index))],
              res |-> "ok"]
        ELSE [e |-> e, res |-> "IndexError"]

\* DiscordEmbed.remove_field(index): pops inside 0..len-1, IndexError outside.
RemoveField(e, index) ==
    IF 0 <= index /\ index < Len(e.fields.v)
    THEN [e |-> [e EXCEPT !.fields = PyList(PopAt(@.v, index))], res |-> "ok"]
    ELSE [e |-> e, res |-> "IndexError"]

\* DiscordEmbed.to_dict(): the attributes that are not None, as a dict.
ToDict(e) ==
    PyDict([k \in {a \in DOMAIN e : e[a] # None} |-> e[k]])

-----------------------------------------------------------------------------
(* DiscordPoll *)

NewPoll(question, options) == [question |-> question, options |-> options]

SetQuestion(p, question) == [p EXCEPT !.question = question]

AddOption(p, option) == [p EXCEPT !.options = PyList(@.v \o <<option>>)]

\* DiscordPoll.remove_option(index): pops inside 0..len-1, IndexError outside.
RemoveOption(p, index) ==
    IF 0 <= index /\ index < Len(p.options.v)
    THEN [p |-> [p EXCEPT !.options = PyList(PopAt(@.v, index))], res |-> "ok"]
    ELSE [p |-> p, res |-> "IndexError"]

PollToDict(p) == PyDict([question |-> p.question, options |-> p.options])

-----------------------------------------------------------------------------
(* DiscordAllowedMentions *)

MentionSliceStart == 100

\* str(n) of an integer n >= 0: its decimal digits.
RECURSIVE PyStrOfInt(_)
PyStrOfInt(n) ==
    IF n < 10 THEN <<HexLower[n + 1]>>
    ELSE PyStrOfInt(n \div 10) \o <<HexLower[(n % 10) + 1]>>

NewMentions(parse, users, roles) == [parse |-> parse, users |-> users, roles |-> roles]

\* DiscordAllowedMentions.set_parse(**kw): an explicit parse list replaces the
\* stored one, otherwise the list is rebuilt from the truthy flags.
SetParse(m, kw) ==
    LET parse == KwGet(kw, "parse", None)
        flag(k, word) == IF Truthy(KwGet(kw, k, None)) THEN <<PyStr(word)>> ELSE <<>>
    IN  IF parse # None THEN [m EXCEPT !.parse = parse]
        ELSE [m EXCEPT !.parse = PyList(flag("roles", <<"r", "o", "l", "e", "s">>)
                                        \o flag("users", <<"u", "s", "e", "r", "s">>)
                                        \o flag("everyone", <<"e", "v", "e", "r", "y", "o", "n", "e">>))]

\* DiscordAllowedMentions.add_user(user_id): a None or empty list is replaced by
\* a new list, then str(user_id) is appended.
AddUser(m, user_id) ==
    LET base == IF Truthy(m.users) THEN m.users.v ELSE <<>>
    IN  [m EXCEPT !.users = PyList(base \o <<PyStr(PyStrOfInt(user_id))>>)]

AddRole(m, role_id) ==
    LET base == IF Truthy(m.roles) THEN m.roles.v ELSE <<>>
    IN  [m EXCEPT !.roles = PyList(base \o <<PyStr(PyStrOfInt(role_id))>>)]

\* DiscordAllowedMentions.to_dict(): a key for each truthy attribute; users and
\* roles carry the slice [100:] of the stored list.
MentionsToDict(m) ==
    LET keys == {k \in {"parse", "users", "roles"} : Truthy(m[k])}
    IN  PyDict([k \in keys |->
                  IF k = "parse" THEN m.parse
                  ELSE PyList(SliceFrom(m[k].v, MentionSliceStart))])

-----------------------------------------------------------------------------
(* DiscordComponents *)

NewComponents == [components |-> PyList(<<>>)]

AddActionRow(c, components) ==
    [c EXCEPT !.components =
        PyList(@.v \o <<PyDict([type |-> PyInt(1), components |-> components])>>)]

\* DiscordComponents.add_button: emoji and url are keys only when truthy.
AddButton(c, label, custom_id, style, emoji, url, disabled) ==
    LET base == [type |-> PyInt(2), label |-> label, custom_id |-> custom_id,
                 style |-> style, disabled |-> disabled]
        opt == [emoji |-> emoji, url |-> url]
        keys == DOMAIN base \cup {k \in DOMAIN opt : Truthy(opt[k])}
        button == [k \in keys |-> IF k \in DOMAIN base THEN base[k] ELSE opt[k]]
    IN  [c EXCEPT !.components = PyList(@.v \o <<PyDict(button)>>)]

AddSelectMenu(c, custom_id, options, placeholder, min_values, max_values, disabled) ==
    [c EXCEPT !.components =
        PyList(@.v \o <<PyDict([type |-> PyInt(3), custom_id |-> custom_id,
                                options |-> options, placeholder |-> placeholder,
                                min_values |-> min_values, max_values |-> max_values,
                                disabled |-> disabled])>>)]

GetComponents(c) == c.components

-----------------------------------------------------------------------------
(* DiscordWebhook *)

EmbedLimit == 10

\* validate_embed_fields returning after its first field.
ValidateFirstFieldOnly(fields) ==
    IF fields = <<>> THEN "ok"
    ELSE LET field == Head(fields).v
         IN  IF ~("name" \in DOMAIN field /\ "value" \in DOMAIN field) THEN "keys"
             ELSE IF ~(field["name"].t = "str" /\ field["value"].t = "str") THEN "types"
             ELSE IF "inline" \in DOMAIN field /\ field["inline"].t # "bool" THEN "inline"
             ELSE "ok"

\* DiscordWebhook.validate_embed_fields(fields): "ok", or the ValueError raised
\* at the first field that fails a check ("keys", "types" or "inline").
RECURSIVE ValidateEmbedFields(_)
ValidateEmbedFields(fields) ==
    IF fields = <<>> THEN "ok"
    ELSE LET field == Head(fields).v
         IN  IF ~("name" \in DOMAIN field /\ "value" \in DOMAIN field) THEN "keys"
             ELSE IF ~(field["name"].t = "str" /\ field["value"].t = "str") THEN "types"
             ELSE IF "inline" \in DOMAIN field /\ field["inline"].t # "bool" THEN "inline"
             ELSE ValidateEmbedFields(Tail(fields))

\* DiscordWebhook._embed_to_dict(embed): embed.to_dict() once its fields (none,
\* when the dict has no "fields" key) pass validate_embed_fields.
EmbedToDict(e) ==
    LET d == ToDict(e)
        fields == IF "fields" \in DOMAIN d.v THEN d.v["fields"].v ELSE <<>>
    IN  [res |-> ValidateEmbedFields(fields), d |-> d]

\* The cut one embed later: embeds[:11].
TruncateEmbedsOffByOne(list) == SliceTo(list, EmbedLimit + 1)

\* embeds[:10]
TruncateEmbeds(list) == SliceTo(list, EmbedLimit)

\* The overrides added whenever they are not None.
OverridesNotNone(username, avatar_url) ==
    LET opt == [username |-> username, avatar_url |-> avatar_url]
    IN  [k \in {x \in DOMAIN opt : opt[x] # None} |-> opt[k]]

\* The keys execute adds to the payload when their value is truthy.
Overrides(username, avatar_url) ==
    LET opt == [username |-> username, avatar_url |-> avatar_url]
    IN  [k \in {x \in DOMAIN opt : Truthy(opt[x])} |-> opt[k]]

\* requests.post(...) answered with status code st, or (st = 0) not answered at
\* all; response.raise_for_status() raises HTTPError for 400..599.
Transport(st) ==
    IF st = 0 THEN [res |-> "ConnectionError", ret |-> None]
    ELSE IF 400 <= st /\ st < 600 THEN [res |-> "HTTPError", ret |-> None]
    ELSE [res |-> "ok", ret |-> PyInt(st)]

\* DiscordWebhook.execute(...) when the transport answers with st: how the call
\* ended (res), the payload built (None when validation raised), the payloads
\* handed to requests.post, and the response returned.
Execute(content, embedList, components, pollArg, username, avatar_url, tts, allowed_mentions, st) ==
    LET cut == IF Truthy(embedList) THEN TruncateEmbeds(embedList.v) ELSE <<>>
        results == [i \in 1..Len(cut) |-> EmbedToDict(cut[i])]
        bad == {i \in 1..Len(cut) : results[i].res # "ok"}
        embed_dicts == PyList([i \in 1..Len(cut) |-> results[i].d])
        component_data == IF Truthy(components) THEN GetComponents(components.v) ELSE PyList(<<>>)
        poll_data == IF Truthy(pollArg) THEN PollToDict(pollArg.v) ELSE PyDict(NoKw)
        base == [content |-> content, embeds |-> embed_dicts, components |-> component_data,
                 poll |-> poll_data, tts |-> tts]
        opt == Overrides(username, avatar_url)
        payload == PyDict([k \in DOMAIN base \cup DOMAIN opt |->
                             IF k \in DOMAIN opt THEN opt[k] ELSE base[k]])
        sent == Transport(st)
    IN  IF bad # {}
        THEN [res |-> "ValueError", payload |-> None, posts |-> <<>>, ret |-> None]
        ELSE [res |-> sent.res, payload |-> payload, posts |-> <<payload>>, ret |-> sent.ret]

-----------------------------------------------------------------------------
(* Values that start every specification *)

Hi == PyStr(<<"H", "i">>)

FieldA == PyDict([name |-> PyStr(<<"A">>), value |-> PyStr(<<"B">>), inline |-> PyBool(TRUE)])

FieldC == PyDict([name |-> PyStr(<<"C">>), value |-> PyStr(<<"D">>), inline |-> PyBool(FALSE)])

FieldE == PyDict([name |-> PyStr(<<"E">>), value |-> PyStr(<<"F">>), inline |-> PyBool(TRUE)])

NoCall == [op |-> "none"]

\* No list object on the heap, and the names the caller has for the instances
\* it builds, none built yet.
NoHeap == <<>>

Instances == {"a", "b"}

NoObjs == [i \in Instances |-> None]

NoLast == [op |-> "init", arg |-> None, res |-> "ok"]

NoConv == [called |-> FALSE, res |-> "none", v |-> None]

NoInput == [form |-> "none", c |-> 0]

IdlePoll == NewPoll(PyStr(<<"Q">>), PyList(<<>>))

IdleMentions == NewMentions(None, None, None)

IdleEmbed == NewEmbed(None, None, NoKw, 7).e

-----------------------------------------------------------------------------
(* The colour conversions on sampled colours *)

MaxBits == 25

RECURSIVE Pow2(_)
Pow2(k) == IF k = 0 THEN 1 ELSE 2 * Pow2(k - 1)

\* The sampled colours: each power of two up to 2^MaxBits, its neighbours, and
\* their negations.
ColorSamples ==
    UNION {{Pow2(k) - 1, Pow2(k), Pow2(k) + 1, 0 - Pow2(k)} : k \in 0..MaxBits}

RECURSIVE HexDigitsOf(_, _)
HexDigitsOf(n, table) ==
    IF n < 16 THEN <<table[n + 1]>>
    ELSE HexDigitsOf(n \div 16, table) \o <<table[(n % 16) + 1]>>

RECURSIVE PadLeft(_, _)
PadLeft(s, n) == IF Len(s) >= n THEN s ELSE PadLeft(<<"0">> \o s, n)

\* The ways a caller writes colour c as text: format(c, "x"), format(c, "X"),
\* hex(c) and format(c, "06X").
FormatHex(c, form) ==
    LET sign == IF c < 0 THEN <<"-">> ELSE <<>>
        abs == IF c < 0 THEN 0 - c ELSE c
    IN  CASE form = "x" -> sign \o HexDigitsOf(abs, HexLower)
          [] form = "X" -> sign \o HexDigitsOf(abs, HexUpper)
          [] form = "0x" -> sign \o <<"0", "x">> \o HexDigitsOf(abs, HexLower)
          [] OTHER -> sign \o PadLeft(HexDigitsOf(abs, HexUpper), 6 - Len(sign))

HexForms == {"x", "X", "0x", "06X"}

\* Text that is no colour, or a colour written unusually.
RawStrings ==
    << <<>>, <<"z", "z">>, <<"#", "f", "f", "0", "0", "0", "0">>, <<" ", "f", "f", " ">>,
       <<"f", "_", "f">>, <<"f", "_", "_", "f">>, <<"0", "x">>, <<"0", "x", "_", "1", "0">>,
       <<"+", "f", "f">>, <<"-", " ", "1">>, <<"_", "f">>, <<"f", "_">> >>

ColorInputs ==
    [form : {"int"} \cup HexForms, c : ColorSamples]
        \cup [form : {"raw"}, c : 1..Len(RawStrings)]
        \cup {NoInput}

\* The Python value a sampled input stands for.
ColorArg(in) ==
    CASE in.form = "none" -> None
      [] in.form = "int" -> PyInt(in.c)
      [] in.form = "raw" -> PyStr(RawStrings[in.c])
      [] OTHER -> PyStr(FormatHex(in.c, in.form))

InitColor ==
    /\ cin \in ColorInputs
    /\ embed \in {IdleEmbed, NewEmbed(Hi, None, [color |-> PyInt(255), fields |-> PyList(<<FieldA>>)], 7).e}
    /\ last = NoLast
    /\ conv = NoConv
    /\ poll = IdlePoll
    /\ ncalls = 0
    /\ tsByUser = FALSE
    /\ mentions = IdleMentions
    /\ embeds = <<>>
    /\ call = NoCall
    /\ heap = NoHeap
    /\ objs = NoObjs

\* embed.set_color(cin)
CallSetColor ==
    /\ last.op = "init"
    /\ LET r == SetColor(embed, ColorArg(cin))
       IN  /\ embed' = r.e
           /\ last' = [op |-> "set_color", arg |-> ColorArg(cin), res |-> r.res]
    /\ UNCHANGED <<poll, ncalls, tsByUser, cin, conv, mentions, embeds, call, heap, objs>>

\* DiscordUtilities().convert_color_to_int(cin)
CallConvert ==
    /\ ~conv.called
    /\ LET r == ConvertColorToInt(ColorArg(cin))
       IN  conv' = [called |-> TRUE, res |-> r.res, v |-> r.v]
    /\ UNCHANGED <<embed, poll, ncalls, tsByUser, last, cin, mentions, embeds, call, heap, objs>>

NextColor == CallSetColor \/ CallConvert

SpecColor == InitColor /\ [][NextColor]_vars

-----------------------------------------------------------------------------
(* Claims about the colour conversions, under SpecColor *)

\* The input is colour cin.c written as an int or as hexadecimal text.
IsColorInput == cin.form \in {"int"} \cup HexForms

\* set_color and convert_color_to_int ended alike: both raised the same error,
\* or the colour stored is the colour returned.
ColorsAgree == last.res = conv.res /\ (conv.res = "ok" => embed.color = conv.v)

ColorOutOfRange == IsColorInput /\ (cin.c < 0 \/ cin.c >= 16777216)

\* C4: every colour outside [0, 16777216), given as an int or as hexadecimal
\* text, makes both conversions fail with ValueError (the code's InvalidColor),
\* and the failing set_color leaves every attribute of the embed as it was.
C4_OutOfRangeFails ==
    /\ [](ColorOutOfRange =>
            /\ last.op = "set_color" => last.res = "ValueError"
            /\ conv.called => conv.res = "ValueError")
    /\ [][(ColorOutOfRange /\ last.op = "init" /\ last'.op = "set_color")
            => embed' = embed]_vars

\* 16777216 written in hexadecimal was refused by both, the embed keeping 255.
C4_Witness ==
    /\ cin = [form |-> "x", c |-> 16777216]
    /\ last.op = "set_color" /\ last.res = "ValueError"
    /\ embed.color = PyInt(255)
    /\ conv.called /\ conv.res = "ValueError"

-----------------------------------------------------------------------------
(* The builders: one embed and one poll, and the methods called on them *)

MaxCalls == 3

MaxFields == 3

MaxOptions == 3

Desc == PyStr(<<"D", "e", "s", "c">>)

Url == PyStr(<<"h", "t", "t", "p", "s", ":", "/", "/", "x">>)

OptA == PyStr(<<"a">>)

OptB == PyStr(<<"b">>)

OptC == PyStr(<<"c">>)

\* The constructor calls the embed starts from, each [title, description, kw].
EmbedCtorCalls ==
    { [title |-> None, description |-> None, kw |-> NoKw],
      [title |-> Hi, description |-> None, kw |-> NoKw],
      [title |-> Hi, description |-> None, kw |-> [color |-> PyInt(255)]],
      [title |-> Hi, description |-> Desc,
       kw |-> [color |-> PyStr(<<"f", "f", "0", "0", "0", "0">>),
               fields |-> PyList(<<FieldA, FieldC, FieldE>>),
               timestamp |-> PyInt(60)]] }

\* The embeds those calls construct (a constructor that raises constructs none).
ConstructedEmbeds(ctors) ==
    {r \in {[e |-> NewEmbed(c.title, c.description, c.kw, now).e,
             res |-> NewEmbed(c.title, c.description, c.kw, now).res,
             ts |-> "timestamp" \in DOMAIN c.kw] : c \in ctors, now \in ClockValues} :
        r.res = "ok"}

InitBuilders(ctors, polls) ==
    /\ \E r \in ConstructedEmbeds(ctors) : embed = r.e /\ tsByUser = r.ts
    /\ poll \in polls
    /\ ncalls = 0
    /\ last = NoLast
    /\ cin = NoInput
    /\ conv = NoConv
    /\ mentions = IdleMentions
    /\ embeds = <<>>
    /\ call = NoCall
    /\ heap = NoHeap
    /\ objs = NoObjs

Init == InitBuilders(EmbedCtorCalls, {IdlePoll})

Called(op, arg, res) == last' = [op |-> op, arg |-> arg, res |-> res]

EmbedOnly == UNCHANGED <<poll, cin, conv, mentions, embeds, call, heap, objs>>

PollOnly == UNCHANGED <<embed, tsByUser, cin, conv, mentions, embeds, call, heap, objs>>

DoSetTitle ==
    /\ embed' = SetTitle(embed, Hi)
    /\ Called("set_title", Hi, "ok")
    /\ UNCHANGED tsByUser /\ EmbedOnly

DoSetDescription ==
    /\ embed' = SetDescription(embed, Desc)
    /\ Called("set_description", Desc, "ok")
    /\ UNCHANGED tsByUser /\ EmbedOnly

DoSetUrl ==
    /\ embed' = SetUrl(embed, Url)
    /\ Called("set_url", Url, "ok")
    /\ UNCHANGED tsByUser /\ EmbedOnly

TimestampArgs ==
    {None, PyInt(60), PyDatetime(7), PyStr(IsoFormat(125)), PyStr(<<"n", "o", "w">>)}

DoSetTimestamp ==
    \E ts \in TimestampArgs, now \in ClockValues :
        LET r == SetTimestamp(embed, ts, now)
        IN  /\ embed' = r.e
            /\ Called("set_timestamp", ts, r.res)
            /\ tsByUser' = TRUE
            /\ EmbedOnly

ColorArgs ==
    {None, PyInt(0 - 1), PyInt(0), PyInt(16777215), PyInt(16777216),
     PyStr(<<"0", "0", "f", "f", "0", "0">>), PyStr(<<"1", "0", "0", "0", "0", "0", "0">>),
     PyStr(<<"#", "f", "f">>)}

DoSetColor ==
    \E color \in ColorArgs :
        LET r == SetColor(embed, color)
        IN  /\ embed' = r.e
            /\ Called("set_color", color, r.res)
            /\ UNCHANGED tsByUser /\ EmbedOnly

DoSetFooter ==
    \E icon_url \in {None, Url} :
        /\ embed' = SetFooter(embed, Hi, icon_url)
        /\ Called("set_footer", PyDict([text |-> Hi, icon_url |-> icon_url]), "ok")
        /\ UNCHANGED tsByUser /\ EmbedOnly

\* The height and width a caller gives with a media URL: none, or both.
Sizes == {[height |-> None, width |-> None], [height |-> PyInt(32), width |-> PyInt(64)]}

DoSetImage ==
    \E sz \in Sizes :
        /\ embed' = SetImage(embed, Url, sz.height, sz.width)
        /\ Called("set_image", PyDict(sz), "ok")
        /\ UNCHANGED tsByUser /\ EmbedOnly

DoSetThumbnail ==
    \E sz \in Sizes :
        /\ embed' = SetThumbnail(embed, Url, sz.height, sz.width)
        /\ Called("set_thumbnail", PyDict(sz), "ok")
        /\ UNCHANGED tsByUser /\ EmbedOnly

DoSetVideo ==
    \E sz \in Sizes :
        /\ embed' = SetVideo(embed, Url, sz.height, sz.width)
        /\ Called("set_video", PyDict(sz), "ok")
        /\ UNCHANGED tsByUser /\ EmbedOnly

DoSetProvider ==
    \E name \in {None, Hi}, url \in {None, Url} :
        /\ embed' = SetProvider(embed, name, url)
        /\ Called("set_provider", PyDict([name |-> name, url |-> url]), "ok")
        /\ UNCHANGED tsByUser /\ EmbedOnly

DoSetAuthor ==
    \E url \in {None, Url} :
        /\ embed' = SetAuthor(embed, Hi, url, None)
        /\ Called("set_author", PyDict([name |-> Hi, url |-> url, icon_url |-> None]), "ok")
        /\ UNCHANGED tsByUser /\ EmbedOnly

DoAddField ==
    /\ Len(embed.fields.v) < MaxFields
    /\ \E f \in {FieldA, FieldC} :
        /\ embed' = AddField(embed, f.v.name, f.v.value, f.v.inline)
        /\ Called("add_field", f, "ok")
    /\ UNCHANGED tsByUser /\ EmbedOnly

DoRemoveField ==
    \E index \in (0 - 2)..MaxFields :
        LET r == RemoveField(embed, index)
        IN  /\ embed' = r.e
            /\ Called("remove_field", PyInt(index), r.res)
            /\ UNCHANGED tsByUser /\ EmbedOnly

DoSetQuestion ==
    /\ poll' = SetQuestion(poll, Hi)
    /\ Called("set_question", Hi, "ok")
    /\ PollOnly

DoAddOption ==
    /\ Len(poll.options.v) < MaxOptions
    /\ \E o \in {OptA, OptB} :
        /\ poll' = AddOption(poll, o)
        /\ Called("add_option", o, "ok")
    /\ PollOnly

DoRemoveOption ==
    \E index \in (0 - 2)..MaxOptions :
        LET r == RemoveOption(poll, index)
        IN  /\ poll' = r.p
            /\ Called("remove_option", PyInt(index), r.res)
            /\ PollOnly

\* One more method call, while the embed has had fewer than MaxCalls.
Count == ncalls < MaxCalls /\ ncalls' = ncalls + 1

\* The embed builder: up to MaxCalls method calls on a constructed embed.
Next ==
    \/ Count /\ DoSetTitle
    \/ Count /\ DoSetDescription
    \/ Count /\ DoSetUrl
    \/ Count /\ DoSetTimestamp
    \/ Count /\ DoSetColor
    \/ Count /\ DoSetFooter
    \/ Count /\ DoSetImage
    \/ Count /\ DoSetThumbnail
    \/ Count /\ DoSetVideo
    \/ Count /\ DoSetProvider
    \/ Count /\ DoSetAuthor
    \/ Count /\ DoAddField
    \/ Count /\ DoRemoveField

Spec == Init /\ [][Next]_vars

\* The lists of the embed and the poll: fields and options added and removed.
ListCtorCalls ==
    { [title |-> None, description |-> None, kw |-> NoKw],
      [title |-> Hi, description |-> None,
       kw |-> [fields |-> PyList(<<FieldA, FieldC, FieldE>>), timestamp |-> PyInt(60)]] }

InitLists ==
    InitBuilders(ListCtorCalls, {IdlePoll, NewPoll(PyStr(<<"Q">>), PyList(<<OptA, OptB, OptC>>))})

NextLists ==
    \/ DoAddField /\ UNCHANGED ncalls
    \/ DoRemoveField /\ UNCHANGED ncalls
    \/ DoSetQuestion /\ UNCHANGED ncalls
    \/ DoAddOption /\ UNCHANGED ncalls
    \/ DoRemoveOption /\ UNCHANGED ncalls

SpecLists == InitLists /\ [][NextLists]_vars

-----------------------------------------------------------------------------
(* Claims about the embed builder, under Spec *)

\* The stored colour is None or an int in [0, 16777215].
ColorInRange ==
    \/ embed.color = None
    \/ embed.color.t = "int" /\ 0 <= embed.color.v /\ embed.color.v <= 16777215

\* C5: whatever methods are called on a constructed embed, the stored colour is
\* absent or an integer in [0, 16777215]; a colour once stored is never absent
\* again, and set_color(None) leaves the stored colour as it was.
C5_ColorInvariant ==
    /\ []ColorInRange
    /\ [][/\ embed.color # None => embed'.color # None
          /\ (last'.op = "set_color" /\ last'.arg = None) => embed'.color = embed.color]_vars

\* A colour stored by set_color(16777215) survived a later set_color(None).
C5_Witness ==
    /\ last.op = "set_color" /\ last.arg = None /\ last.res = "ok"
    /\ embed.color = PyInt(16777215)

NestedAttributes == {"footer", "image", "thumbnail", "video", "provider", "author"}

\* The embed is as DiscordEmbed(title, description) leaves it: no other
\* attribute was given or set, no field added, no timestamp asked for.
NoOptionalSet ==
    /\ \A a \in NestedAttributes \cup {"url", "color"} : embed[a] = None
    /\ embed.fields = PyList(<<>>)
    /\ ~tsByUser

\* C7 as stated: to_dict() of an embed with no optional attribute set has the
\* title and description keys that were set and no other key (no timestamp the
\* caller never asked for, no empty field list), and no None value.
C7_OnlyTitleAndDescription ==
    NoOptionalSet =>
        /\ DOMAIN ToDict(embed).v = {a \in {"title", "description"} : embed[a] # None}
        /\ \A k \in DOMAIN ToDict(embed).v : ToDict(embed).v[k] # None

\* C8 as stated: no nested record of to_dict() has a key whose value is None.
C8_NoNestedNone ==
    \A a \in NestedAttributes \cap DOMAIN ToDict(embed).v :
        ToDict(embed).v[a].t = "dict" =>
            \A k \in DOMAIN ToDict(embed).v[a].v : ToDict(embed).v[a].v[k] # None

-----------------------------------------------------------------------------
(* Claims about the lists of the embed and the poll, under SpecLists *)

\* The list s without its i-th element (0-based), the others in their order.
Without(s, i) == [j \in 1..(Len(s) - 1) |-> IF j <= i THEN s[j] ELSE s[j + 1]]

\* C6: remove_field(i) and remove_option(i) raise IndexError for every i outside
\* 0..len-1 (negative i too, and every i on an empty list) and then leave the
\* builder as it was; for i inside they remove exactly the i-th element and
\* keep the order of the others.
C6_RemoveByIndex ==
    [][/\ last'.op = "remove_field" =>
            LET i == last'.arg.v
                old == embed.fields.v
            IN  IF 0 <= i /\ i <= Len(old) - 1
                THEN /\ last'.res = "ok"
                     /\ embed'.fields = PyList(Without(old, i))
                     /\ embed' = [embed EXCEPT !.fields = embed'.fields]
                ELSE last'.res = "IndexError" /\ embed' = embed
       /\ last'.op = "remove_option" =>
            LET i == last'.arg.v
                old == poll.options.v
            IN  IF 0 <= i /\ i <= Len(old) - 1
                THEN /\ last'.res = "ok"
                     /\ poll'.options = PyList(Without(old, i))
                     /\ poll'.question = poll.question
                ELSE last'.res = "IndexError" /\ poll' = poll]_vars

\* remove_field(-1) failed on an embed without fields, after remove_option(1)
\* had taken the middle one of the poll's three options.
C6_Witness ==
    /\ last = [op |-> "remove_field", arg |-> PyInt(0 - 1), res |-> "IndexError"]
    /\ embed.fields = PyList(<<>>)
    /\ poll.options = PyList(<<OptA, OptC>>)

-----------------------------------------------------------------------------
(* The allowed-mentions builder *)

PrefillLen == 101

MaxAdds == 3

\* A list of ids the caller hands to the constructor: "1", "2", ...
Prefilled == PyList([i \in 1..PrefillLen |-> PyStr(PyStrOfInt(i))])

UsersWord == PyStr(<<"u", "s", "e", "r", "s">>)

InitMentions ==
    /\ mentions \in {NewMentions(parse, users, roles) :
                        parse \in {None, PyList(<<UsersWord>>)},
                        users \in {None, PyList(<<>>), Prefilled},
                        roles \in {None, Prefilled}}
    /\ ncalls = 0
    /\ embed = IdleEmbed
    /\ tsByUser = FALSE
    /\ poll = IdlePoll
    /\ last = NoLast
    /\ cin = NoInput
    /\ conv = NoConv
    /\ embeds = <<>>
    /\ call = NoCall
    /\ heap = NoHeap
    /\ objs = NoObjs

MentionsOnly == UNCHANGED <<embed, poll, tsByUser, last, cin, conv, embeds, call, heap, objs>>

\* The keyword arguments of set_parse: an explicit list, or flags.
ParseKwargs ==
    {[parse |-> PyList(<<UsersWord>>)], [parse |-> PyList(<<>>), users |-> PyBool(TRUE)], NoKw}
        \cup {[roles |-> PyBool(r), users |-> PyBool(u), everyone |-> PyBool(e)] :
                r \in BOOLEAN, u \in BOOLEAN, e \in BOOLEAN}

DoSetParse ==
    /\ \E kw \in ParseKwargs : mentions' = SetParse(mentions, kw)
    /\ UNCHANGED ncalls
    /\ MentionsOnly

DoAddUser ==
    /\ ncalls < MaxAdds
    /\ ncalls' = ncalls + 1
    /\ \E id \in {7, 42} : mentions' = AddUser(mentions, id)
    /\ MentionsOnly

DoAddRole ==
    /\ ncalls < MaxAdds
    /\ ncalls' = ncalls + 1
    /\ \E id \in {7, 42} : mentions' = AddRole(mentions, id)
    /\ MentionsOnly

NextMentions == DoSetParse \/ DoAddUser \/ DoAddRole

SpecMentions == InitMentions /\ [][NextMentions]_vars

\* The entries of list s after its first n, in their order.
After(s, n) == [j \in 1..(IF Len(s) > n THEN Len(s) - n ELSE 0) |-> s[j + n]]

\* C10 as stated: to_dict() has the users (roles) key only if the value it
\* carries is non-empty, and that value is the entries after the first 100
\* added, in insertion order.
C10_KeyOnlyIfValueNonEmpty ==
    \A k \in {"users", "roles"} \cap DOMAIN MentionsToDict(mentions).v :
        /\ MentionsToDict(mentions).v[k].v # <<>>
        /\ MentionsToDict(mentions).v[k].v = After(mentions[k].v, 100)

-----------------------------------------------------------------------------
(* The webhook: the caller collects embeds in a list and calls execute *)

MaxEmbeds == 11

\* The builders a caller passes: objects, which Python counts as true.
ComponentsObj(c) == [t |-> "DiscordComponents", v |-> c]

PollObj(p) == [t |-> "DiscordPoll", v |-> p]

MentionsObj(m) == [t |-> "DiscordAllowedMentions", v |-> m]

\* The i-th embed of the list when it is well-formed: titled by its place, and
\* with one field at the odd places.
GoodEmbed(i) ==
    NewEmbed(PyStr(<<"E">> \o PyStrOfInt(i)), None,
             IF i % 2 = 1 THEN [fields |-> PyList(<<FieldA>>), timestamp |-> PyInt(60)]
             ELSE [timestamp |-> PyInt(60)], 7).e

\* Field lists validate_embed_fields refuses: no "value" key, no "name" key, a
\* name that is no string, an "inline" that is no bool.
BadFieldLists ==
    { <<FieldA, PyDict([name |-> PyStr(<<"A">>)])>>,
      <<PyDict([value |-> PyStr(<<"B">>)])>>,
      <<PyDict([name |-> PyInt(5), value |-> PyStr(<<"B">>)])>>,
      <<PyDict([name |-> PyStr(<<"A">>), value |-> PyStr(<<"B">>), inline |-> PyInt(1)])>> }

BadEmbeds ==
    {NewEmbed(Hi, None, [fields |-> PyList(fl), timestamp |-> PyInt(60)], 7).e : fl \in BadFieldLists}

IsBadEmbed(e) == e \in BadEmbeds

InitExecute ==
    /\ embeds = <<>>
    /\ call = NoCall
    /\ embed = IdleEmbed
    /\ tsByUser = FALSE
    /\ poll = IdlePoll
    /\ ncalls = 0
    /\ last = NoLast
    /\ cin = NoInput
    /\ conv = NoConv
    /\ mentions = IdleMentions
    /\ heap = NoHeap
    /\ objs = NoObjs

\* The caller appends an embed to the list: a well-formed one, or (once per
\* list) one with a malformed field list.
AppendEmbed ==
    /\ Len(embeds) < MaxEmbeds
    /\ \E e \in {GoodEmbed(Len(embeds) + 1)}
                \cup (IF \E i \in 1..Len(embeds) : IsBadEmbed(embeds[i]) THEN {} ELSE BadEmbeds) :
          embeds' = Append(embeds, e)
    /\ call' = NoCall
    /\ UNCHANGED <<embed, poll, ncalls, tsByUser, last, cin, conv, mentions, heap, objs>>

\* A components builder after add_action_row, add_button and add_select_menu.
ButtonRow ==
    AddSelectMenu(
        AddButton(AddActionRow(NewComponents, PyList(<<>>)),
                  Hi, PyStr(<<"i", "d">>), PyInt(1), None, Url, PyBool(FALSE)),
        PyStr(<<"m">>), PyList(<<>>), Hi, PyInt(1), PyInt(1), PyBool(FALSE))

\* The status codes the transport answers with; 0 is no answer (a network fault).
StatusCodes == {204, 304, 404, 0}

\* webhook.execute(content, embeds, components, poll, username, avatar_url, tts,
\* allowed_mentions), the embeds being the caller's list (or None for no list).
\* The webhook keeps nothing between calls: one call per state of the list.
\* status is the transport's answer, None when nothing was posted.
\* What execute leaves of the list the caller passed, had line 90 cut the list
\* itself (del embeds[10:]) and not sliced a copy of it.
BorrowedCutInPlace(embedList, components, pollArg, allowed_mentions) ==
    [embeds |-> IF Truthy(embedList) THEN PyList(SliceTo(embedList.v, EmbedLimit))
                ELSE embedList,
     components |-> components, poll |-> pollArg, allowed_mentions |-> allowed_mentions]

\* The builders the caller passed, as the caller finds them once execute has
\* returned or raised.  Line 90 slices: embeds[:10] is a new list bound to the
\* local name, the caller's list keeps every element.  Lines 36 and 91 read each
\* embed through to_dict, which fills dicts of its own; line 37 only reads the
\* fields; lines 95 and 96 read the components and the poll; allowed_mentions is
\* never used in the body.
Borrowed(embedList, components, pollArg, allowed_mentions) ==
    [embeds |-> embedList, components |-> components, poll |-> pollArg,
     allowed_mentions |-> allowed_mentions]

DoExecute ==
    /\ call = NoCall
    /\ \E content \in {None, Hi},
       embedList \in {PyList(embeds)} \cup (IF embeds = <<>> THEN {None} ELSE {}),
       components \in {None, ComponentsObj(ButtonRow)},
       pollArg \in {None, PollObj(NewPoll(Hi, PyList(<<OptA, OptB>>)))},
       username \in {None, PyStr(<<>>), Hi},
       avatar_url \in {None, Url},
       tts \in {PyBool(FALSE), PyBool(TRUE)},
       allowed_mentions \in {None, MentionsObj(AddUser(IdleMentions, 7))},
       st \in StatusCodes :
        LET r == Execute(content, embedList, components, pollArg, username, avatar_url,
                         tts, allowed_mentions, st)
            left == Borrowed(embedList, components, pollArg, allowed_mentions)
        IN  /\ call' = [op |-> "execute", content |-> content, embeds |-> embedList,
                        components |-> components, poll |-> pollArg, username |-> username,
                        avatar_url |-> avatar_url, tts |-> tts,
                        allowed_mentions |-> allowed_mentions,
                        status |-> IF r.posts = <<>> THEN None ELSE PyInt(st),
                        res |-> r.res, payload |-> r.payload, posts |-> r.posts, ret |-> r.ret,
                        after |-> left]
            /\ embeds' = IF Truthy(embedList) THEN left.embeds.v ELSE embeds
            /\ UNCHANGED <<embed, poll, ncalls, tsByUser, last, cin, conv, mentions, heap, objs>>

NextExecute == AppendEmbed \/ DoExecute

SpecExecute == InitExecute /\ [][NextExecute]_vars

-----------------------------------------------------------------------------
(* Claims about execute, under SpecExecute *)

Min(a, b) == IF a < b THEN a ELSE b

\* The list handed to execute, as the caller holds it ([] for None).
Passed == IF call.embeds = None THEN <<>> ELSE call.embeds.v

\* C1: the payload's embeds are the serializations of the first min(len, 10)
\* embeds handed to execute, in their order: the first 10 of a longer list, all
\* of a list of 10 or fewer.
C1_FirstTenInOrder ==
    (call.op = "execute" /\ call.payload # None) =>
        LET out == call.payload.v["embeds"].v
        IN  /\ Len(out) = Min(Len(Passed), 10)
            /\ \A i \in 1..Len(out) : out[i] = ToDict(Passed[i])

\* Eleven embeds were handed over, and the payload posted carries ten.
C1_Witness ==
    /\ call.op = "execute" /\ call.res = "ok"
    /\ Len(Passed) = 11
    /\ Len(call.payload.v["embeds"].v) = 10
    /\ call.posts = <<call.payload>>

\* A field that lacks "name" or "value", whose name or value is no string, or
\* whose "inline" is there and no bool.
MalformedField(f) ==
    \/ "name" \notin DOMAIN f.v
    \/ "value" \notin DOMAIN f.v
    \/ f.v["name"].t # "str"
    \/ f.v["value"].t # "str"
    \/ ("inline" \in DOMAIN f.v /\ f.v["inline"].t # "bool")

HasMalformedField(e) == \E i \in 1..Len(e.fields.v) : MalformedField(e.fields.v[i])

\* execute raised the validation error: no payload, no response, nothing posted.
FailedValidation ==
    /\ call.res = "ValueError"
    /\ call.payload = None
    /\ call.ret = None
    /\ call.posts = <<>>

\* C2 as stated: a malformed field in any embed handed to execute makes it fail
\* with the validation error, with no payload, no response and no POST.
C2_AnyEmbedValidated ==
    (call.op = "execute" /\ \E i \in 1..Len(Passed) : HasMalformedField(Passed[i]))
        => FailedValidation

\* C2 (as amended): a malformed field in any of the first 10 embeds handed to
\* execute makes it fail with the validation error, with no payload, no
\* response and no POST; embeds after the tenth are dropped unvalidated.
C2_FirstTenValidated ==
    (call.op = "execute" /\ \E i \in 1..Min(Len(Passed), 10) : HasMalformedField(Passed[i]))
        => FailedValidation

\* The tenth of ten embeds had a field without "value", and execute failed.
C2_Witness ==
    /\ call.op = "execute"
    /\ Len(Passed) = 10
    /\ \E i \in 1..Len(Passed[10].fields.v) : "value" \notin DOMAIN Passed[10].fields.v[i].v
    /\ FailedValidation

\* C9: the keys of the payload are content, embeds, components, poll and tts,
\* username exactly when the username given is truthy, avatar_url likewise, and
\* never a key for allowed_mentions, whether or not a builder was passed.
C9_PayloadKeys ==
    (call.op = "execute" /\ call.payload # None) =>
        DOMAIN call.payload.v =
            {"content", "embeds", "components", "poll", "tts"}
                \cup (IF call.username \in {None, PyStr(<<>>)} THEN {} ELSE {"username"})
                \cup (IF call.avatar_url \in {None, PyStr(<<>>)} THEN {} ELSE {"avatar_url"})

\* An allowed-mentions builder and an empty username were passed; the payload
\* has the five keys and avatar_url.
C9_Witness ==
    /\ call.op = "execute" /\ call.res = "ok"
    /\ call.allowed_mentions # None
    /\ call.username = PyStr(<<>>)
    /\ call.avatar_url = Url
    /\ DOMAIN call.payload.v = {"content", "embeds", "components", "poll", "tts", "avatar_url"}

PassedValidation ==
    \A i \in 1..Min(Len(Passed), EmbedLimit) : ~HasMalformedField(Passed[i])

\* The status the transport answered with is a 2xx.
Answered2xx == call.status # None /\ 200 <= call.status.v /\ call.status.v < 300

\* C12: a call that passes validation hands exactly one payload to the transport
\* and then either returns the response, on a 2xx, or ends with the transport's
\* error, on any other status or on a network fault, with nothing returned and
\* no second request; a call that fails validation hands the transport nothing.
C12_OnePostThenReturnOrRaise ==
    call.op = "execute" =>
        IF PassedValidation
        THEN /\ call.posts = <<call.payload>>
             /\ IF Answered2xx
                THEN call.res = "ok" /\ call.ret = call.status
                ELSE call.res \in {"HTTPError", "ConnectionError"} /\ call.ret = None
        ELSE call.posts = <<>> /\ call.res = "ValueError" /\ call.ret = None

-----------------------------------------------------------------------------
(* The builders' lists as objects: two instances and the lists they hold *)

\* A reference to the list object at address a, and the object it names.
Ref(a) == [t |-> "ref", v |-> a]

Deref(h, r) == h[r.v]

\* DiscordPoll.add_option(option) on heap h: list.append on the object that
\* self.options names.
AddOptionAt(h, p, option) == [h EXCEPT ![p.options.v] = PyList(@.v \o <<option>>)]

\* DiscordPoll.remove_option(index) on heap h: list.pop on that object.
RemoveOptionAt(h, p, index) ==
    IF 0 <= index /\ index < Len(Deref(h, p.options).v)
    THEN [heap |-> [h EXCEPT ![p.options.v] = PyList(PopAt(@.v, index))], res |-> "ok"]
    ELSE [heap |-> h, res |-> "IndexError"]

\* DiscordPoll.get_options(): the object itself.
GetOptionsAt(h, p) == Deref(h, p.options)

\* DiscordEmbed(title, description, **kw) on heap h.  kwargs.get("fields", [])
\* keeps the caller's reference when "fields" was passed, and evaluates []
\* otherwise: a new list object on every call.
NewEmbedAt(h, title, description, kw, now) ==
    LET r == NewEmbed(title, description, kw, now)
    IN  IF "fields" \in DOMAIN kw
        THEN [heap |-> h, e |-> r.e]
        ELSE [heap |-> Append(h, r.e.fields), e |-> [r.e EXCEPT !.fields = Ref(Len(h) + 1)]]

\* DiscordEmbed.add_field(name, value, inline) on heap h.
AddFieldAt(h, e, name, value, inline) ==
    [h EXCEPT ![e.fields.v] =
        PyList(@.v \o <<PyDict([name |-> name, value |-> value, inline |-> inline])>>)]

\* DiscordEmbed.remove_field(index) on heap h.
RemoveFieldAt(h, e, index) ==
    IF 0 <= index /\ index < Len(Deref(h, e.fields).v)
    THEN [heap |-> [h EXCEPT ![e.fields.v] = PyList(PopAt(@.v, index))], res |-> "ok"]
    ELSE [heap |-> h, res |-> "IndexError"]

\* DiscordEmbed.get_fields(): the object itself.
GetFieldsAt(h, e) == Deref(h, e.fields)

\* The longest list an add is applied to.
MaxShared == 2

\* The lists the caller made before building anything: two option lists and a
\* list of fields, at these addresses.
OptionLists == {1, 2}

FieldLists == {3}

CallerLists == <<PyList(<<OptA>>), PyList(<<OptA>>), PyList(<<>>)>>

InitShared ==
    /\ heap = CallerLists
    /\ objs = NoObjs
    /\ last = NoLast
    /\ embed = IdleEmbed
    /\ tsByUser = FALSE
    /\ poll = IdlePoll
    /\ ncalls = 0
    /\ cin = NoInput
    /\ conv = NoConv
    /\ mentions = IdleMentions
    /\ embeds = <<>>
    /\ call = NoCall

SharedOnly == UNCHANGED <<embed, poll, ncalls, tsByUser, cin, conv, mentions, embeds, call>>

IsPoll(o) == "options" \in DOMAIN o

IsEmbed(o) == "fields" \in DOMAIN o

\* The method called last on an instance: its name, the instance, its argument
\* and how it ended.
CalledOn(op, self, arg, res) == last' = [op |-> op, self |-> self, arg |-> arg, res |-> res]

\* i = DiscordPoll("Hi", options), options one of the caller's lists.
ConstructPoll ==
    \E i \in Instances, a \in OptionLists :
        /\ objs[i] = None
        /\ objs' = [objs EXCEPT ![i] = NewPoll(Hi, Ref(a))]
        /\ CalledOn("DiscordPoll", i, Ref(a), "ok")
        /\ UNCHANGED heap /\ SharedOnly

\* i = DiscordEmbed() or i = DiscordEmbed(fields=fields), fields the caller's list.
ConstructEmbed ==
    \E i \in Instances, kw \in {NoKw} \cup {[fields |-> Ref(a)] : a \in FieldLists} :
        LET r == NewEmbedAt(heap, None, None, kw, 7)
        IN  /\ objs[i] = None
            /\ objs' = [objs EXCEPT ![i] = r.e]
            /\ heap' = r.heap
            /\ CalledOn("DiscordEmbed", i, PyDict(kw), "ok")
            /\ SharedOnly

DoAddOptionAt ==
    \E i \in Instances, option \in {OptB} :
        /\ IsPoll(objs[i])
        /\ Len(GetOptionsAt(heap, objs[i]).v) < MaxShared
        /\ heap' = AddOptionAt(heap, objs[i], option)
        /\ CalledOn("add_option", i, option, "ok")
        /\ UNCHANGED objs /\ SharedOnly

DoRemoveOptionAt ==
    \E i \in Instances, index \in {-1, 0, 1} :
        LET r == RemoveOptionAt(heap, objs[i], index)
        IN  /\ IsPoll(objs[i])
            /\ heap' = r.heap
            /\ CalledOn("remove_option", i, PyInt(index), r.res)
            /\ UNCHANGED objs /\ SharedOnly

DoAddFieldAt ==
    \E i \in Instances :
        /\ IsEmbed(objs[i])
        /\ Len(GetFieldsAt(heap, objs[i]).v) < MaxShared
        /\ heap' = AddFieldAt(heap, objs[i], PyStr(<<"A">>), PyStr(<<"B">>), PyBool(TRUE))
        /\ CalledOn("add_field", i, FieldA, "ok")
        /\ UNCHANGED objs /\ SharedOnly

DoRemoveFieldAt ==
    \E i \in Instances, index \in {-1, 0, 1} :
        LET r == RemoveFieldAt(heap, objs[i], index)
        IN  /\ IsEmbed(objs[i])
            /\ heap' = r.heap
            /\ CalledOn("remove_field", i, PyInt(index), r.res)
            /\ UNCHANGED objs /\ SharedOnly

NextShared ==
    \/ ConstructPoll
    \/ ConstructEmbed
    \/ DoAddOptionAt
    \/ DoRemoveOptionAt
    \/ DoAddFieldAt
    \/ DoRemoveFieldAt

SpecShared == InitShared /\ [][NextShared]_vars

\* The list seen through instance i: get_options() of a poll, get_fields() of
\* an embed.
Observed(i) ==
    IF IsPoll(objs[i]) THEN GetOptionsAt(heap, objs[i]) ELSE GetFieldsAt(heap, objs[i])

ListOps == {"add_option", "remove_option", "add_field", "remove_field"}

\* C13: no two instances share a list.  An add or a remove called on one
\* instance leaves the list seen through any other instance as it was, however
\* the two were built: from one list of the caller, from two, or from none.
C13_NoAliasing ==
    [][\A i, j \in Instances :
          (/\ i # j
           /\ objs[i] # None /\ objs[j] # None
           /\ last'.op \in ListOps /\ last'.self = i)
              => Observed(j)' = Observed(j)]_vars

====
